---- MODULE Spec2Model ----
(***************************************************************************)
(* Matching / assignment logic of the two face-recognition services:      *)
(*   face-recognition-service/main.py : POST /recognize                   *)
(*   ml-service/app.py                : POST /match-faces,                *)
(*                                      POST /process-attendance          *)
(*                                                                         *)
(* Numbers.  Distances, tolerances, thresholds and confidences are        *)
(* fixed-point integers counted in units of 1/One (One = 20, so 5 is      *)
(* 0.25 and 12 is 0.6).  The inputs are drawn from multiples of 0.25,     *)
(* on which the IEEE-754 double arithmetic of the services (1 - x,        *)
(* |a - b|, <, <=) is exact, so the integer arithmetic below gives the    *)
(* same results as the Python code on the same inputs.                    *)
(* Embeddings are sequences of such numbers (dimension 1 here).           *)
(*                                                                         *)
(* One HTTP request is served at a time; the handlers share no state.     *)
(* The location of a detected face is its position in the detection list. *)
(***************************************************************************)
EXTENDS Integers, Sequences, FiniteSets, TLC

VARIABLES
    pc,        \* position of the handler being executed
    request,   \* the HTTP request being served: its route and its inputs
    rec,       \* locals of recognize_faces        (main.py)
    mf,        \* locals of match_faces            (app.py)
    pa,        \* locals of process_attendance     (app.py)
    response   \* the HTTP response of the request, once produced

vars == <<pc, request, rec, mf, pa, response>>

----------------------------------------------------------------------------
(* Bounds of the model *)

MaxKnown == 2        \* known faces / references per request
MaxFaces == 2        \* faces detected in one image / detections per request
MaxPhotos == 2       \* photos per attendance request
MaxStudents == 2     \* students per attendance request

(* Fixed-point representation *)

One == 20                       \* the literal 1 of "1 - distance"
Quarter == One \div 4           \* 0.25

DefaultTolerance == 12          \* data.get('tolerance', 0.6)
AttendanceTolerance == 12       \* the literal 0.6 of process_attendance
Inf == 1000 * One               \* float('inf'): above every distance

----------------------------------------------------------------------------
(* Input domains *)

SeqsUpTo(S, n) == UNION {[1..k -> S] : k \in 0..n}

Coords == {0, Quarter, 3 * Quarter}
Encodings == {<<c>> : c \in Coords}

Ids == {"s1", "s2"}
\* keys of the JSON object 'references'; the empty string is a legal key
RefKeys == {"", "s1", "s2"}

Thresholds == {Quarter, 2 * Quarter, 3 * Quarter}
Tolerances == {Quarter, 2 * Quarter, 3 * Quarter}

KnownFace == [id : Ids, encoding : Encodings]

\* the form field known_faces: text that is not JSON, or a JSON list
KnownFacesInputs ==
    {[json_ok |-> FALSE, data |-> <<>>]} \cup
    {[json_ok |-> TRUE, data |-> d] : d \in SeqsUpTo(KnownFace, MaxKnown)}

\* an uploaded image: undecodable bytes, or a picture with some faces in it,
\* given by the encodings the embedding provider returns for them
ImageInputs ==
    {[decodable |-> FALSE, faces |-> <<>>]} \cup
    {[decodable |-> TRUE, faces |-> f] : f \in SeqsUpTo(Encodings, MaxFaces)}

----------------------------------------------------------------------------
(* Helpers *)

Abs(x) == IF x < 0 THEN -x ELSE x

RECURSIVE SumSq(_, _, _)
SumSq(a, b, k) ==
    IF k = 0 THEN 0 ELSE (a[k] - b[k]) * (a[k] - b[k]) + SumSq(a, b, k - 1)

RECURSIVE SumAbs(_, _, _)
SumAbs(a, b, k) ==
    IF k = 0 THEN 0 ELSE Abs(a[k] - b[k]) + SumAbs(a, b, k - 1)

\* NumPy broadcasting of two vectors: equal lengths, or one of length 1,
\* which is then repeated to the length of the other (0 included)
Broadcastable(a, b) == Len(a) = Len(b) \/ Len(a) = 1 \/ Len(b) = 1
BroadcastLen(a, b) == IF Len(a) = 1 THEN Len(b) ELSE Len(a)
Stretch(a, n) == IF Len(a) = n THEN a ELSE [k \in 1..n |-> a[1]]

\* np.linalg.norm of a - b for two broadcastable vectors, where it is a
\* multiple of the unit 1/One (it lies between 0 and the L1 norm); the norm
\* of the empty vector is 0. Where the square root is no multiple of the
\* unit the operator has no value: the vectors of the input sets (at most
\* one non-zero coordinate in a difference) never get there
Norm(a, b) ==
    LET len == BroadcastLen(a, b)
        x == Stretch(a, len)
        y == Stretch(b, len)
        n == SumSq(x, y, len)
    IN  CHOOSE r \in 0..SumAbs(x, y, len) :
            r * r = n

\* whether face_distance raises ValueError: "face_encodings - face_to_compare"
\* makes an array of the list face_encodings, which fails for rows of
\* different lengths, and subtracts, which fails when the rows do not
\* broadcast against face_to_compare
face_distance_raises(face_encodings, face_to_compare) ==
    /\ Len(face_encodings) > 0
    /\ \/ \E a, b \in 1..Len(face_encodings) :
              Len(face_encodings[a]) /= Len(face_encodings[b])
       \/ ~Broadcastable(face_encodings[1], face_to_compare)

\* face_recognition.face_distance(face_encodings, face_to_compare)
face_distance(face_encodings, face_to_compare) ==
    [j \in 1..Len(face_encodings) |-> Norm(face_encodings[j], face_to_compare)]

\* an argmin returning the last occurrence of the minimum
argmin_last(s) ==
    CHOOSE j \in 0..(Len(s) - 1) :
        /\ \A k \in 0..(Len(s) - 1) : s[j + 1] <= s[k + 1]
        /\ \A k \in (j + 1)..(Len(s) - 1) : s[k + 1] > s[j + 1]

\* np.argmin: 0-based index of the first occurrence of the minimum
argmin(s) ==
    CHOOSE j \in 0..(Len(s) - 1) :
        /\ \A k \in 0..(Len(s) - 1) : s[j + 1] <= s[k + 1]
        /\ \A k \in 0..(j - 1) : s[k + 1] > s[j + 1]

\* round(x, 4) of a value counted in 1/One: the result is counted in 1/10000
\* (round half up; the inputs of this model never fall on a half)
round4(x) == (2 * 10000 * x + One) \div (2 * One)

----------------------------------------------------------------------------
(* face-recognition-service/main.py *)

compare_faces(known_encodings, face_encoding, tolerance) ==
    IF Len(known_encodings) = 0
    THEN [index |-> -1, confidence |-> 0]
    ELSE LET face_distances == face_distance(known_encodings, face_encoding)
             best_match_index == argmin(face_distances)
             best_distance == face_distances[best_match_index + 1]
             confidence == One - best_distance
         IN  IF best_distance <= tolerance
             THEN [index |-> best_match_index, confidence |-> confidence]
             ELSE [index |-> -1, confidence |-> confidence]

RecIdle ==
    [known_faces_data |-> <<>>, known_encodings |-> <<>>, known_info |-> <<>>,
     face_encodings |-> <<>>, tolerance |-> 0, i |-> 0,
     recognized |-> <<>>, unrecognized_count |-> 0, matched_ids |-> {}]

\* the except clauses of recognize_faces: json.JSONDecodeError gives 400, every
\* other exception (an HTTPException raised inside the try included) gives 500
recognize_except(exc) ==
    IF exc.type = "JSONDecodeError"
    THEN [status |-> 400, detail |-> "Invalid JSON format for known_faces"]
    ELSE [status |-> 500, detail |-> exc.detail]

\* recognize_iteration without the matched_ids test of its if
recognize_iteration_noclaim(f) ==
    LET face_encoding == f.face_encodings[f.i + 1]
        m == compare_faces(f.known_encodings, face_encoding, f.tolerance)
    IN  IF m.index >= 0
        THEN LET info == f.known_info[m.index + 1]
             IN  [f EXCEPT !.i = f.i + 1,
                           !.matched_ids = @ \cup {info.id},
                           !.recognized = Append(@,
                               [id |-> info.id,
                                confidence |-> round4(m.confidence),
                                location |-> f.i])]
        ELSE [f EXCEPT !.i = f.i + 1,
                       !.unrecognized_count = @ + 1]

\* recognize_iteration comparing the face with the unclaimed known faces only
recognize_iteration_fallthrough(f) ==
    LET face_encoding == f.face_encodings[f.i + 1]
        unclaimed(j) == f.known_info[j].id \notin f.matched_ids
        idx == SelectSeq([j \in 1..Len(f.known_info) |-> j], unclaimed)
        m == compare_faces([n \in 1..Len(idx) |-> f.known_encodings[idx[n]]],
                           face_encoding, f.tolerance)
    IN  IF m.index >= 0
        THEN LET info == f.known_info[idx[m.index + 1]]
             IN  [f EXCEPT !.i = f.i + 1,
                           !.matched_ids = @ \cup {info.id},
                           !.recognized = Append(@,
                               [id |-> info.id,
                                confidence |-> round4(m.confidence),
                                location |-> f.i])]
        ELSE [f EXCEPT !.i = f.i + 1,
                       !.unrecognized_count = @ + 1]

\* one iteration of "for i, (face_encoding, location) in enumerate(zip(...))"
recognize_iteration(f) ==
    LET face_encoding == f.face_encodings[f.i + 1]
        m == compare_faces(f.known_encodings, face_encoding, f.tolerance)
    IN  IF m.index >= 0 /\ f.known_info[m.index + 1].id \notin f.matched_ids
        THEN LET info == f.known_info[m.index + 1]
             IN  [f EXCEPT !.i = f.i + 1,
                           !.matched_ids = @ \cup {info.id},
                           !.recognized = Append(@,
                               [id |-> info.id,
                                confidence |-> round4(m.confidence),
                                location |-> f.i])]
        ELSE [f EXCEPT !.i = f.i + 1,
                       !.unrecognized_count = @ + 1]

\* the environment variable API_KEY and the header X-API-Key of a request;
\* "" stands for an unset variable and for a missing header
AuthInputs ==
    {[API_KEY |-> "", x_api_key |-> ""],
     [API_KEY |-> "k", x_api_key |-> ""],
     [API_KEY |-> "k", x_api_key |-> "wrong"],
     [API_KEY |-> "k", x_api_key |-> "k"]}

\* APIKeyMiddleware.dispatch for a path other than /health: the response it
\* gives itself, or status 0 when it calls the handler
dispatch(expected_key, api_key) ==
    IF expected_key = ""
    THEN [status |-> 0]
    ELSE IF api_key = ""
    THEN [status |-> 401, detail |-> "API key is missing"]
    ELSE IF api_key /= expected_key
    THEN [status |-> 403, detail |-> "Invalid API key"]
    ELSE [status |-> 0]

\* a POST /recognize arrives and goes through the middleware
recognize_arrive(auth, known_faces, image, threshold) ==
        /\ request' = [route |-> "/recognize", auth |-> auth,
                       known_faces |-> known_faces,
                       image |-> image, threshold |-> threshold]
        /\ rec' = RecIdle
        /\ LET r == dispatch(auth.API_KEY, auth.x_api_key)
           IN  IF r.status /= 0
               THEN response' = r /\ pc' = "done"
               ELSE response' = [status |-> 0] /\ pc' = "recognize_handler"

\* recognize_faces from its start to "await image.read()"
recognize_begin(known_faces) ==
        /\ IF ~known_faces.json_ok
           THEN /\ response' = recognize_except([type |-> "JSONDecodeError", detail |-> ""])
                /\ rec' = RecIdle
                /\ pc' = "done"
           ELSE IF known_faces.data = <<>>
           THEN /\ response' = recognize_except(
                       [type |-> "HTTPException", detail |-> "400: No known faces provided"])
                /\ rec' = RecIdle
                /\ pc' = "done"
           ELSE LET known_faces_data == known_faces.data
                    f0 == [RecIdle EXCEPT
                             !.known_faces_data = known_faces_data,
                             !.known_encodings =
                                 [j \in 1..Len(known_faces_data) |-> known_faces_data[j].encoding],
                             !.known_info =
                                 [j \in 1..Len(known_faces_data) |-> [id |-> known_faces_data[j].id]]]
                IN  /\ rec' = f0
                    /\ response' = [status |-> 0]
                    /\ pc' = "recognize_read"

\* recognize_faces from the return of "await image.read()" to the detection
\* loop
recognize_read(image, threshold) ==
        /\ IF ~image.decodable
           THEN /\ response' = recognize_except(
                       [type |-> "UnidentifiedImageError", detail |-> "cannot identify image file"])
                /\ rec' = rec
                /\ pc' = "done"
           ELSE IF Len(image.faces) = 0
           THEN /\ response' = [status |-> 200, success |-> TRUE,
                                total_faces_detected |-> 0,
                                recognized |-> <<>>,
                                unrecognized_count |-> 0]
                /\ rec' = rec
                /\ pc' = "done"
           ELSE /\ rec' = [rec EXCEPT !.face_encodings = image.faces,
                                      !.tolerance = One - threshold]
                /\ response' = [status |-> 0]
                /\ pc' = "recognize_loop"

RecognizeRequest ==
    /\ pc = "idle"
    /\ \E auth \in AuthInputs, known_faces \in KnownFacesInputs,
          image \in ImageInputs, threshold \in Thresholds :
            recognize_arrive(auth, known_faces, image, threshold)
    /\ UNCHANGED <<mf, pa>>

\* the handler runs up to its await
RecognizeParse ==
    /\ pc = "recognize_handler"
    /\ recognize_begin(request.known_faces)
    /\ UNCHANGED <<request, mf, pa>>

\* the handler goes on after its await
RecognizeRead ==
    /\ pc = "recognize_read"
    /\ recognize_read(request.image, request.threshold)
    /\ UNCHANGED <<request, mf, pa>>

\* an iteration of the detection loop; a ValueError of face_distance leaves
\* the loop for the except clause
RecognizeLoop ==
    /\ pc = "recognize_loop"
    /\ rec.i < Len(rec.face_encodings)
    /\ IF face_distance_raises(rec.known_encodings, rec.face_encodings[rec.i + 1])
       THEN /\ response' = recognize_except(
                   [type |-> "ValueError",
                    detail |-> "operands could not be broadcast together"])
            /\ pc' = "done"
            /\ rec' = rec
       ELSE /\ rec' = recognize_iteration(rec)
            /\ UNCHANGED <<pc, response>>
    /\ UNCHANGED <<request, mf, pa>>

RecognizeRespond ==
    /\ pc = "recognize_loop"
    /\ rec.i = Len(rec.face_encodings)
    /\ response' = [status |-> 200, success |-> TRUE,
                    total_faces_detected |-> Len(rec.face_encodings),
                    recognized |-> rec.recognized,
                    unrecognized_count |-> rec.unrecognized_count]
    /\ pc' = "done"
    /\ UNCHANGED <<request, rec, mf, pa>>

----------------------------------------------------------------------------
(* ml-service/app.py : POST /match-faces *)

\* the JSON object 'references', in insertion order: distinct keys
Reference == [student_id : RefKeys, encoding : Encodings]
ReferenceInputs ==
    {r \in SeqsUpTo(Reference, MaxKnown) :
        \A a, b \in 1..Len(r) : a /= b => r[a].student_id /= r[b].student_id}

\* the optional member 'tolerance' of the request body
OptionalTolerance ==
    {[present |-> FALSE, value |-> 0]} \cup
    {[present |-> TRUE, value |-> t] : t \in Tolerances}

\* the JSON body: one without 'detected' or 'references', or a complete one
MatchInputs ==
    {[complete |-> FALSE, detected |-> <<>>, references |-> <<>>,
      tolerance |-> [present |-> FALSE, value |-> 0]]} \cup
    [complete : {TRUE}, detected : SeqsUpTo(Encodings, MaxFaces),
     references : ReferenceInputs, tolerance : OptionalTolerance]

MfIdle ==
    [detected_encodings |-> <<>>, reference_encodings |-> <<>>, tolerance |-> 0,
     i |-> 0, best_match |-> <<>>, best_distance |-> Inf, matches |-> <<>>]

\* Python truth value of best_match: None (<<>>) and '' are false
truthy(best_match) == best_match /= <<>> /\ best_match[1] /= ""

\* "for student_id, reference_encoding in reference_encodings.items()", from
\* the j-th item on, with the current best_match (<<>> is None) / best_distance
RECURSIVE match_faces_scan(_, _, _, _, _, _)
match_faces_scan(refs, detected_encoding, tolerance, j, best_match, best_distance) ==
    IF j > Len(refs)
    THEN [best_match |-> best_match, best_distance |-> best_distance]
    ELSE LET distance == face_distance(<<refs[j].encoding>>, detected_encoding)[1]
         IN  IF distance < tolerance /\ distance < best_distance
             THEN match_faces_scan(refs, detected_encoding, tolerance, j + 1,
                                   <<refs[j].student_id>>, distance)
             ELSE match_faces_scan(refs, detected_encoding, tolerance, j + 1,
                                   best_match, best_distance)

\* match_faces_iteration appending a record for an unmatched detection too
match_faces_iteration_keepall(f) ==
    LET b == match_faces_scan(f.reference_encodings, f.detected_encodings[f.i + 1],
                              f.tolerance, 1, <<>>, Inf)
    IN  [f EXCEPT !.i = f.i + 1,
                  !.best_match = b.best_match,
                  !.best_distance = b.best_distance,
                  !.matches = Append(@, [faceId |-> f.i,
                                         studentId |-> IF truthy(b.best_match)
                                                       THEN b.best_match[1] ELSE "",
                                         confidence |-> One - b.best_distance,
                                         distance |-> b.best_distance])]

\* one iteration of "for i, detected_encoding in enumerate(detected_encodings)"
match_faces_iteration(f) ==
    LET b == match_faces_scan(f.reference_encodings, f.detected_encodings[f.i + 1],
                              f.tolerance, 1, <<>>, Inf)
    IN  [f EXCEPT !.i = f.i + 1,
                  !.best_match = b.best_match,
                  !.best_distance = b.best_distance,
                  !.matches =
                      IF truthy(b.best_match)
                      THEN Append(@, [faceId |-> f.i,
                                      studentId |-> b.best_match[1],
                                      confidence |-> One - b.best_distance,
                                      distance |-> b.best_distance])
                      ELSE @]

match_faces_begin(data) ==
        /\ request' = [route |-> "/match-faces", data |-> data]
        /\ IF ~data.complete
           THEN /\ response' = [status |-> 400, error |-> "Missing required data"]
                /\ mf' = MfIdle
                /\ pc' = "done"
           ELSE /\ mf' = [MfIdle EXCEPT
                            !.detected_encodings = data.detected,
                            !.reference_encodings = data.references,
                            !.tolerance = IF data.tolerance.present
                                          THEN data.tolerance.value
                                          ELSE DefaultTolerance]
                /\ response' = [status |-> 0]
                /\ pc' = "match_loop"

MatchFacesRequest ==
    /\ pc = "idle"
    /\ \E data \in MatchInputs : match_faces_begin(data)
    /\ UNCHANGED <<rec, pa>>

\* the locals when face_distance raises in the iteration for detection
\* f.i, at the first of the references in raising: best_match and
\* best_distance were reset and then set by the references before that one
match_faces_interrupted(f, raising) ==
    LET first == CHOOSE j \in raising : \A k \in raising : j <= k
        b == match_faces_scan(SubSeq(f.reference_encodings, 1, first - 1),
                              f.detected_encodings[f.i + 1],
                              f.tolerance, 1, <<>>, Inf)
    IN  [f EXCEPT !.best_match = b.best_match,
                  !.best_distance = b.best_distance]

\* the except clause of match_faces: every exception gives 500
match_faces_except(exc) == [status |-> 500, error |-> exc.detail]

\* an iteration of the loop over the detections; a ValueError of
\* face_distance for one of the references leaves the loop for the except
\* clause
MatchFacesLoop ==
    /\ pc = "match_loop"
    /\ mf.i < Len(mf.detected_encodings)
    /\ LET raising == {j \in 1..Len(mf.reference_encodings) :
                          face_distance_raises(
                              <<mf.reference_encodings[j].encoding>>,
                              mf.detected_encodings[mf.i + 1])}
       IN
       IF raising /= {}
       THEN /\ response' = match_faces_except(
                   [type |-> "ValueError",
                    detail |-> "operands could not be broadcast together"])
            /\ pc' = "done"
            /\ mf' = match_faces_interrupted(mf, raising)
       ELSE /\ mf' = match_faces_iteration(mf)
            /\ UNCHANGED <<pc, response>>
    /\ UNCHANGED <<request, rec, pa>>

MatchFacesRespond ==
    /\ pc = "match_loop"
    /\ mf.i = Len(mf.detected_encodings)
    /\ response' = [status |-> 200, success |-> TRUE,
                    matches |-> mf.matches,
                    totalDetected |-> Len(mf.detected_encodings),
                    totalMatched |-> Len(mf.matches)]
    /\ pc' = "done"
    /\ UNCHANGED <<request, rec, mf, pa>>

----------------------------------------------------------------------------
(* ml-service/app.py : POST /process-attendance *)

\* an uploaded photo: a file load_image_from_file cannot open (it returns
\* None), or a picture with no face or one face in it
PhotoInputs ==
    {[decodable |-> FALSE, faces |-> <<>>], [decodable |-> TRUE, faces |-> <<>>]}
    \cup {[decodable |-> TRUE, faces |-> <<e>>] : e \in Encodings}

\* a student record; faceEncoding <<>> stands for a missing, null or empty one
Student == [id : Ids, faceEncoding : {<<>>} \cup Encodings]

\* the form field 'students': absent, or a JSON list
StudentsInputs ==
    {[present |-> FALSE, students |-> <<>>]} \cup
    {[present |-> TRUE, students |-> s] : s \in SeqsUpTo(Student, MaxStudents)}

\* a form field 'tolerance' the caller may send along; the handler never reads it
FormTolerances == {Quarter, 2 * Quarter}

PaIdle ==
    [photos |-> <<>>, students |-> <<>>,
     photo_index |-> 0, all_detected_faces |-> <<>>,
     student_index |-> 0, results |-> <<>>, matched_students |-> {}]

\* one iteration of "for photo in photos"
process_attendance_photo(f) ==
    LET photo == f.photos[f.photo_index + 1]
    IN  IF ~photo.decodable
        THEN [f EXCEPT !.photo_index = f.photo_index + 1]
        ELSE IF Len(photo.faces) > 0
        THEN [f EXCEPT !.photo_index = f.photo_index + 1,
                       !.all_detected_faces = @ \o photo.faces]
        ELSE [f EXCEPT !.photo_index = f.photo_index + 1]

\* "for detected_encoding in all_detected_faces", from the j-th face on.
\* best_face is a history value the code does not keep: the position in the
\* pool of the face that last set best_confidence (0 when none has)
RECURSIVE attendance_scan(_, _, _, _, _, _)
attendance_scan(reference_encoding, faces, j, best_match, best_confidence, best_face) ==
    IF j > Len(faces)
    THEN [best_match |-> best_match, best_confidence |-> best_confidence,
          best_face |-> best_face]
    ELSE LET distance == face_distance(<<reference_encoding>>, faces[j])[1]
             confidence == One - distance
         IN  IF distance < AttendanceTolerance /\ confidence > best_confidence
             THEN attendance_scan(reference_encoding, faces, j + 1, TRUE,
                                  confidence, j)
             ELSE attendance_scan(reference_encoding, faces, j + 1,
                                  best_match, best_confidence, best_face)

\* one iteration of "for student in students"
process_attendance_student(f) ==
    LET student == f.students[f.student_index + 1]
        student_id == student.id
    IN  IF student.faceEncoding = <<>>
        THEN [f EXCEPT !.student_index = f.student_index + 1,
                       !.results = Append(@,
                           [studentId |-> student_id, detected |-> FALSE,
                            confidence |-> 0, status |-> "ABSENT",
                            reason |-> "No reference photo"])]
        ELSE LET b == attendance_scan(student.faceEncoding, f.all_detected_faces,
                                      1, FALSE, 0, 0)
             IN  IF b.best_match
                 THEN [f EXCEPT !.student_index = f.student_index + 1,
                                !.matched_students = @ \cup {student_id},
                                !.results = Append(@,
                                    [studentId |-> student_id, detected |-> TRUE,
                                     confidence |-> b.best_confidence,
                                     status |-> "PRESENT"])]
                 ELSE [f EXCEPT !.student_index = f.student_index + 1,
                                !.results = Append(@,
                                    [studentId |-> student_id, detected |-> FALSE,
                                     confidence |-> 0, status |-> "ABSENT"])]

process_attendance_begin(photos, students_json, form_tolerance) ==
        /\ request' = [route |-> "/process-attendance", photos |-> photos,
                       students_json |-> students_json,
                       form_tolerance |-> form_tolerance]
        /\ IF photos = <<>>
           THEN /\ response' = [status |-> 400, error |-> "No photos provided"]
                /\ pa' = PaIdle
                /\ pc' = "done"
           ELSE IF ~students_json.present
           THEN /\ response' = [status |-> 400, error |-> "No student data provided"]
                /\ pa' = [PaIdle EXCEPT !.photos = photos]
                /\ pc' = "done"
           ELSE /\ pa' = [PaIdle EXCEPT !.photos = photos,
                                        !.students = students_json.students]
                /\ response' = [status |-> 0]
                /\ pc' = "attendance_photos"

AttendanceRequest ==
    /\ pc = "idle"
    /\ \E photos \in SeqsUpTo(PhotoInputs, MaxPhotos),
          students_json \in StudentsInputs,
          form_tolerance \in FormTolerances :
            process_attendance_begin(photos, students_json, form_tolerance)
    /\ UNCHANGED <<rec, mf>>

AttendancePhoto ==
    /\ pc = "attendance_photos"
    /\ pa.photo_index < Len(pa.photos)
    /\ pa' = process_attendance_photo(pa)
    /\ UNCHANGED <<pc, request, rec, mf, response>>

\* "if len(all_detected_faces) == 0: return ..." after the photo loop
AttendancePooled ==
    /\ pc = "attendance_photos"
    /\ pa.photo_index = Len(pa.photos)
    /\ IF Len(pa.all_detected_faces) = 0
       THEN /\ response' = [status |-> 200, success |-> TRUE,
                            message |-> "No faces detected in photos",
                            results |-> <<>>]
            /\ pc' = "done"
       ELSE /\ response' = response
            /\ pc' = "attendance_students"
    /\ UNCHANGED <<request, rec, mf, pa>>

\* the except clause of process_attendance: every exception gives 500
process_attendance_except(exc) == [status |-> 500, error |-> exc.detail]

\* an iteration of the loop over the students; a ValueError of face_distance
\* for one of the pooled faces leaves the loop for the except clause
AttendanceStudent ==
    /\ pc = "attendance_students"
    /\ pa.student_index < Len(pa.students)
    /\ LET reference_encoding == pa.students[pa.student_index + 1].faceEncoding
       IN  IF /\ reference_encoding /= <<>>
              /\ \E j \in 1..Len(pa.all_detected_faces) :
                    face_distance_raises(<<reference_encoding>>,
                                         pa.all_detected_faces[j])
           THEN /\ response' = process_attendance_except(
                       [type |-> "ValueError",
                        detail |-> "operands could not be broadcast together"])
                /\ pc' = "done"
                /\ pa' = pa
           ELSE /\ pa' = process_attendance_student(pa)
                /\ UNCHANGED <<pc, response>>
    /\ UNCHANGED <<request, rec, mf>>

AttendanceRespond ==
    /\ pc = "attendance_students"
    /\ pa.student_index = Len(pa.students)
    /\ response' = [status |-> 200, success |-> TRUE,
                    results |-> pa.results,
                    totalStudents |-> Len(pa.students),
                    totalDetected |-> Len(pa.all_detected_faces),
                    totalMatched |-> Cardinality(pa.matched_students)]
    /\ pc' = "done"
    /\ UNCHANGED <<request, rec, mf, pa>>

----------------------------------------------------------------------------

(* One request from its arrival to its response. The handlers keep nothing
   between requests (their state is their locals), so requests in progress
   at the same time, such as one started while another waits in
   "await image.read()", are independent copies of this machine. *)
Init ==
    /\ pc = "idle"
    /\ request = [route |-> "none"]
    /\ rec = RecIdle
    /\ mf = MfIdle
    /\ pa = PaIdle
    /\ response = [status |-> 0]

\* the request is over; its locals are dropped
Close ==
    /\ pc = "done"
    /\ pc' = "idle"
    /\ request' = [route |-> "none"]
    /\ rec' = RecIdle
    /\ mf' = MfIdle
    /\ pa' = PaIdle
    /\ response' = [status |-> 0]

Next ==
    \/ RecognizeRequest
    \/ RecognizeParse
    \/ RecognizeRead
    \/ RecognizeLoop
    \/ RecognizeRespond
    \/ MatchFacesRequest
    \/ MatchFacesLoop
    \/ MatchFacesRespond
    \/ AttendanceRequest
    \/ AttendancePhoto
    \/ AttendancePooled
    \/ AttendanceStudent
    \/ AttendanceRespond
    \/ Close

Spec == Init /\ [][Next]_vars

----------------------------------------------------------------------------
(* The same handlers on requests whose embeddings differ in length. The
   detector gives every face an embedding of one length (DetectorDim, 128 in
   face_recognition); the embeddings a caller sends as JSON can have any. *)

MaxDimRefs == 2
MaxDimFaces == 2
DetectorDim == 2

\* embeddings of length 0 to 3
DimEncodings == {<<>>, <<0>>, <<0, 0>>, <<0, Quarter>>, <<0, 0, 0>>}
\* embeddings of detected faces
DetectorEncodings == {e \in DimEncodings : Len(e) = DetectorDim}

DimKnownFacesInputs ==
    {[json_ok |-> TRUE, data |-> d] :
        d \in SeqsUpTo([id : Ids, encoding : DimEncodings], MaxDimRefs) \ {<<>>}}
DimImageInputs ==
    {[decodable |-> TRUE, faces |-> f] :
        f \in SeqsUpTo(DetectorEncodings, MaxDimFaces) \ {<<>>}}

DimReferenceInputs ==
    {r \in SeqsUpTo([student_id : Ids, encoding : DimEncodings], MaxDimRefs) :
        \A a, b \in 1..Len(r) : a /= b => r[a].student_id /= r[b].student_id}
DimMatchInputs ==
    [complete : {TRUE},
     detected : SeqsUpTo(DimEncodings, MaxDimFaces) \ {<<>>},
     references : DimReferenceInputs \ {<<>>},
     tolerance : {[present |-> TRUE, value |-> 2 * Quarter]}]

DimPhotoInputs == {[decodable |-> TRUE, faces |-> <<e>>] : e \in DetectorEncodings}
DimStudentsInputs ==
    {[present |-> TRUE, students |-> st] :
        st \in SeqsUpTo([id : Ids, faceEncoding : DimEncodings], MaxDimRefs) \ {<<>>}}

DimRecognizeRequest ==
    /\ pc = "idle"
    /\ \E auth \in AuthInputs, known_faces \in DimKnownFacesInputs,
          image \in DimImageInputs :
            recognize_arrive(auth, known_faces, image, 2 * Quarter)
    /\ UNCHANGED <<mf, pa>>

DimMatchFacesRequest ==
    /\ pc = "idle"
    /\ \E data \in DimMatchInputs : match_faces_begin(data)
    /\ UNCHANGED <<rec, pa>>

DimAttendanceRequest ==
    /\ pc = "idle"
    /\ \E photos \in SeqsUpTo(DimPhotoInputs, MaxDimFaces) \ {<<>>},
          students_json \in DimStudentsInputs :
            process_attendance_begin(photos, students_json, 2 * Quarter)
    /\ UNCHANGED <<rec, mf>>

NextDims ==
    \/ DimRecognizeRequest
    \/ RecognizeParse
    \/ RecognizeRead
    \/ RecognizeLoop
    \/ RecognizeRespond
    \/ DimMatchFacesRequest
    \/ MatchFacesLoop
    \/ MatchFacesRespond
    \/ DimAttendanceRequest
    \/ AttendancePhoto
    \/ AttendancePooled
    \/ AttendanceStudent
    \/ AttendanceRespond
    \/ Close

SpecDims == Init /\ [][NextDims]_vars

----------------------------------------------------------------------------
(* Vocabulary of the properties *)

MinOf(S) == CHOOSE x \in S : \A y \in S : x <= y

\* distance from encoding e to the j-th encoding of encs
DistTo(encs, j, e) == Norm(encs[j], e)

\* the least distance from e to an encoding of the non-empty list encs, and
\* the first position (1-based) that attains it
MinDist(encs, e) == MinOf({DistTo(encs, j, e) : j \in 1..Len(encs)})
FirstNearest(encs, e) ==
    MinOf({j \in 1..Len(encs) : DistTo(encs, j, e) = MinDist(encs, e)})

InRecognize ==
    /\ request.route = "/recognize"
    /\ pc \in {"recognize_handler", "recognize_read", "recognize_loop", "done"}
InMatchFaces == request.route = "/match-faces" /\ pc \in {"match_loop", "done"}
InAttendance ==
    /\ request.route = "/process-attendance"
    /\ pc \in {"attendance_photos", "attendance_students", "done"}
Succeeded == pc = "done" /\ response.status = 200

\* positions of rec.recognized holding the entry of detection k (0-based)
RecognizedAt(k) ==
    {e \in 1..Len(rec.recognized) : rec.recognized[e].location = k}
\* identities claimed by the detections before detection k
ClaimedBefore(k) ==
    {rec.recognized[e].id :
        e \in {x \in 1..Len(rec.recognized) : rec.recognized[x].location < k}}

\* the encodings of the references of /match-faces, in insertion order
RefEncodings ==
    [j \in 1..Len(mf.reference_encodings) |-> mf.reference_encodings[j].encoding]
\* positions of mf.matches holding the record of detection k (0-based)
MatchesAt(k) == {x \in 1..Len(mf.matches) : mf.matches[x].faceId = k}

----------------------------------------------------------------------------
(* C1: in /recognize no identity id appears in more than one entry of the
   recognized list, after every prefix of the detection loop and in the
   response. *)
C1_NoIdentityTwice ==
    /\ \A a, b \in 1..Len(rec.recognized) :
          a /= b => rec.recognized[a].id /= rec.recognized[b].id
    /\ Cardinality(rec.matched_ids) = Len(rec.recognized)
    /\ (Succeeded /\ request.route = "/recognize") =>
          \A a, b \in 1..Len(response.recognized) :
              a /= b => response.recognized[a].id /= response.recognized[b].id

\* two detections whose nearest known faces, both within tolerance, carry
\* the same id: the response recognizes one of them only
C1_Witness ==
    /\ Succeeded /\ request.route = "/recognize"
    /\ Len(rec.face_encodings) = 2
    /\ \A k \in 1..2 :
          MinDist(rec.known_encodings, rec.face_encodings[k]) <= rec.tolerance
    /\ rec.known_info[FirstNearest(rec.known_encodings, rec.face_encodings[1])].id
         = rec.known_info[FirstNearest(rec.known_encodings, rec.face_encodings[2])].id
    /\ Len(response.recognized) = 1
    /\ response.unrecognized_count = 1

(* C2 as stated: each detection is compared with the references not claimed
   by an earlier detection only and takes the nearest of those; it is
   matched to it when that distance is <= tolerance and is unmatched only
   when no unclaimed reference is within tolerance. *)
C2_FallsThroughToUnclaimed ==
    InRecognize =>
        \A k \in 0..(rec.i - 1) :
            LET e == rec.face_encodings[k + 1]
                unclaimed == {j \in 1..Len(rec.known_info) :
                                 rec.known_info[j].id \notin ClaimedBefore(k)}
                within == {j \in unclaimed :
                              DistTo(rec.known_encodings, j, e) <= rec.tolerance}
            IN  IF within = {}
                THEN RecognizedAt(k) = {}
                ELSE LET d == MinOf({DistTo(rec.known_encodings, j, e) : j \in within})
                         best == MinOf({j \in within :
                                           DistTo(rec.known_encodings, j, e) = d})
                     IN  \E x \in RecognizedAt(k) :
                             rec.recognized[x].id = rec.known_info[best].id

(* C2 amended: each detection is compared with all references, claimed or
   not, and takes the first nearest one; it is matched exactly when that
   distance is <= tolerance and the id of that reference has not been
   claimed by an earlier detection, and then carries that id and the
   confidence 1 - distance rounded to 4 digits; otherwise it is unmatched,
   without trying another reference. *)
C2_NearestOverallOrUnmatched ==
    InRecognize =>
        /\ rec.unrecognized_count + Len(rec.recognized) = rec.i
        /\ \A k \in 0..(rec.i - 1) :
            LET e == rec.face_encodings[k + 1]
                d == MinDist(rec.known_encodings, e)
                best == FirstNearest(rec.known_encodings, e)
            IN  IF d <= rec.tolerance /\ rec.known_info[best].id \notin ClaimedBefore(k)
                THEN \E x \in RecognizedAt(k) :
                        /\ rec.recognized[x].id = rec.known_info[best].id
                        /\ rec.recognized[x].confidence * One = (One - d) * 10000
                        /\ RecognizedAt(k) = {x}
                ELSE RecognizedAt(k) = {}

\* the second detection's nearest reference is claimed by the first, another
\* reference with an unclaimed id is within tolerance, and the second
\* detection is left unrecognized
C2_Witness ==
    /\ Succeeded /\ request.route = "/recognize"
    /\ Len(rec.face_encodings) = 2
    /\ RecognizedAt(0) /= {}
    /\ RecognizedAt(1) = {}
    /\ \E j \in 1..Len(rec.known_info) :
          /\ rec.known_info[j].id \notin ClaimedBefore(1)
          /\ DistTo(rec.known_encodings, j, rec.face_encodings[2]) <= rec.tolerance
    /\ response.unrecognized_count = 1

(* C3 as stated: the match test is inclusive in every matching operation: a
   best candidate is accepted exactly when its distance is <= the tolerance
   in force (in /recognize an accepted candidate whose id is unclaimed is
   recognized). *)
C3_InclusiveMatchTest ==
    /\ InRecognize =>
          \A k \in 0..(rec.i - 1) :
              LET e == rec.face_encodings[k + 1]
              IN  (/\ MinDist(rec.known_encodings, e) <= rec.tolerance
                   /\ rec.known_info[FirstNearest(rec.known_encodings, e)].id
                         \notin ClaimedBefore(k))
                  => RecognizedAt(k) /= {}
    /\ (InMatchFaces /\ mf.i > 0 /\ Len(mf.reference_encodings) > 0) =>
          ((mf.best_match /= <<>>) <=>
              (MinDist(RefEncodings, mf.detected_encodings[mf.i]) <= mf.tolerance))
    /\ (InAttendance /\ Len(pa.all_detected_faces) > 0) =>
          \A r \in 1..Len(pa.results) :
              pa.students[r].faceEncoding /= <<>> =>
                  ((pa.results[r].status = "PRESENT") <=>
                      (MinDist(pa.all_detected_faces, pa.students[r].faceEncoding)
                          <= AttendanceTolerance))

(* C4 as stated: in a successful /process-attendance call every identity
   supplied without a reference embedding receives a verdict ABSENT with
   reason "No reference photo", also when no photo yielded a face. *)
C4_NoReferenceAlwaysAbsent ==
    (Succeeded /\ request.route = "/process-attendance") =>
        \A s \in 1..Len(pa.students) :
            pa.students[s].faceEncoding = <<>> =>
                \E r \in 1..Len(response.results) :
                    /\ response.results[r].studentId = pa.students[s].id
                    /\ response.results[r].status = "ABSENT"
                    /\ "reason" \in DOMAIN response.results[r]
                    /\ response.results[r].reason = "No reference photo"

(* C5 as stated: a successful /process-attendance call returns exactly one
   verdict per input identity, in the order of the input list, whatever the
   number of pooled detections, zero included. *)
C5_OneVerdictPerIdentityInOrder ==
    (Succeeded /\ request.route = "/process-attendance") =>
        /\ Len(response.results) = Len(pa.students)
        /\ \A s \in 1..Len(pa.students) :
              response.results[s].studentId = pa.students[s].id

(* C6 as stated: for an identity with a reference embedding and for the
   tolerance given to the call, the verdict is PRESENT exactly when the
   least distance from the reference to a pooled detection is <= that
   tolerance, with confidence 1 - that distance; otherwise it is ABSENT with
   confidence 0.  (The reason NO_MATCH of the absent verdict is left out of
   the formula: the code's absent verdict has no reason member at all.) *)
C6_PresentIffWithinGivenTolerance ==
    (InAttendance /\ Len(pa.all_detected_faces) > 0) =>
        \A r \in 1..Len(pa.results) :
            pa.students[r].faceEncoding /= <<>> =>
                LET d == MinDist(pa.all_detected_faces, pa.students[r].faceEncoding)
                IN  IF d <= request.form_tolerance
                    THEN /\ pa.results[r].status = "PRESENT"
                         /\ pa.results[r].confidence = One - d
                    ELSE /\ pa.results[r].status = "ABSENT"
                         /\ pa.results[r].confidence = 0

(* C7 as stated: a /recognize call whose known_faces list is empty ends in a
   client error (4xx), never in a server error and never in a success. *)
C7_EmptyReferencesClientError ==
    (/\ pc = "done"
     /\ request.route = "/recognize"
     /\ request.known_faces.json_ok
     /\ request.known_faces.data = <<>>)
    => response.status \in 400..499

(* C8 as stated: the two cutoff conventions agree: deciding the best
   candidate of a detection with the confidence threshold 1 - t, as
   /recognize does (compare_faces with tolerance = 1 - threshold), gives the
   same match / no-match outcome as /match-faces gives with the distance
   tolerance t. *)
C8_CutoffConventionsAgree ==
    (InMatchFaces /\ mf.i > 0) =>
        LET threshold == One - mf.tolerance
            m == compare_faces(RefEncodings, mf.detected_encodings[mf.i],
                               One - threshold)
        IN  (mf.best_match /= <<>>) <=> (m.index >= 0)

(* C9 as stated: in /match-faces each detection is decided on its own: it is
   matched exactly when the least distance over the whole reference pool is
   within tolerance (<=), and then to the first reference at that distance,
   whatever the other detections are; a reference is never claimed. *)
C9_EachDetectionBestOverPool ==
    InMatchFaces =>
        \A k \in 0..(mf.i - 1) :
            LET e == mf.detected_encodings[k + 1]
            IN  IF /\ Len(mf.reference_encodings) > 0
                   /\ MinDist(RefEncodings, e) <= mf.tolerance
                THEN \E x \in MatchesAt(k) :
                        mf.matches[x].studentId =
                            mf.reference_encodings[FirstNearest(RefEncodings, e)].student_id
                ELSE MatchesAt(k) = {}

(* C10 as stated: every successful result holds one record per input
   detection (per identity in attendance mode), and each record, an
   unmatched or absent one too, carries the distance and the confidence
   1 - distance of its best candidate. *)
C10_RecordForEveryInput ==
    /\ (Succeeded /\ request.route = "/match-faces") =>
          /\ Len(response.matches) = Len(mf.detected_encodings)
          /\ \A x \in 1..Len(response.matches) :
                response.matches[x].confidence = One - response.matches[x].distance
    /\ (Succeeded /\ request.route = "/recognize") =>
          /\ Len(response.recognized) = response.total_faces_detected
          /\ \A x \in 1..Len(response.recognized) :
                "distance" \in DOMAIN response.recognized[x]
    /\ (Succeeded /\ request.route = "/process-attendance") =>
          /\ Len(response.results) = Len(pa.students)
          /\ \A r \in 1..Len(response.results) :
                (pa.students[r].faceEncoding /= <<>> /\ Len(pa.all_detected_faces) > 0) =>
                    response.results[r].confidence =
                        One - MinDist(pa.all_detected_faces, pa.students[r].faceEncoding)

(* C10 amended: a successful /match-faces result holds a record for the
   matched detections only (those whose first nearest reference is at a
   distance < tolerance and has a non-empty key), in detection order, each
   with the distance of its best reference and the confidence 1 - distance;
   an unmatched detection has no record and shows only in
   totalDetected - totalMatched.
   A successful /recognize result holds a record with the confidence
   1 - distance rounded to 4 digits, and no distance, for each recognized
   detection, and counts the others in unrecognized_count.  A successful
   /process-attendance result that pooled at least one face holds one
   verdict per identity: PRESENT with confidence 1 - distance, or ABSENT
   with confidence 0 and no near-miss score; with no face pooled it holds
   no verdict. *)
C10_RecordsOfMatchedOnly ==
    /\ (Succeeded /\ request.route = "/match-faces") =>
          /\ response.totalDetected = Len(request.data.detected)
          /\ response.totalMatched = Len(response.matches)
          /\ \A x, y \in 1..Len(response.matches) :
                x < y => response.matches[x].faceId < response.matches[y].faceId
          /\ \A x \in 1..Len(response.matches) :
                LET r == response.matches[x]
                IN  /\ r.faceId \in 0..(Len(request.data.detected) - 1)
                    /\ Len(mf.reference_encodings) > 0
                    /\ r.distance =
                          MinDist(RefEncodings, request.data.detected[r.faceId + 1])
                    /\ r.confidence = One - r.distance
          /\ \A k \in 0..(Len(request.data.detected) - 1) :
                (\E x \in 1..Len(response.matches) : response.matches[x].faceId = k)
                <=> (/\ Len(mf.reference_encodings) > 0
                     /\ MinDist(RefEncodings, request.data.detected[k + 1]) < mf.tolerance
                     /\ mf.reference_encodings[
                            FirstNearest(RefEncodings, request.data.detected[k + 1])
                         ].student_id /= "")
    /\ (Succeeded /\ request.route = "/recognize") =>
          /\ response.total_faces_detected = Len(request.image.faces)
          /\ Len(response.recognized) + response.unrecognized_count
                = response.total_faces_detected
          /\ \A x \in 1..Len(response.recognized) :
                LET r == response.recognized[x]
                IN  /\ DOMAIN r = {"id", "confidence", "location"}
                    /\ r.confidence * One =
                          10000 * (One - MinDist(rec.known_encodings,
                                                 request.image.faces[r.location + 1]))
    /\ (Succeeded /\ request.route = "/process-attendance") =>
          IF \A p \in 1..Len(request.photos) : request.photos[p].faces = <<>>
          THEN response.results = <<>>
          ELSE /\ Len(response.results) = Len(request.students_json.students)
               /\ \A r \in 1..Len(response.results) :
                     LET v == response.results[r]
                     IN  /\ "distance" \notin DOMAIN v
                         /\ v.status \in {"PRESENT", "ABSENT"}
                         /\ v.status = "ABSENT" => v.confidence = 0
                         /\ v.status = "PRESENT" =>
                               v.confidence = One -
                                   MinDist(pa.all_detected_faces,
                                           request.students_json.students[r].faceEncoding)

\* a /match-faces response for two detections that holds a record for the
\* second one only: the first, unmatched, is left out
C10_Witness ==
    /\ Succeeded /\ request.route = "/match-faces"
    /\ response.totalDetected = 2
    /\ Len(response.matches) = 1
    /\ response.matches[1].faceId = 1
    /\ Len(mf.reference_encodings) > 0

----------------------------------------------------------------------------
(* C11: a /match-faces or /recognize call in which a detection embedding and
   a reference embedding differ in length ends in an error outcome: it never
   ends in a success response, and no match record is ever made of a
   detection and a reference of different lengths. *)
C11_MismatchedLengthsFail ==
    /\ (/\ request.route = "/match-faces" /\ pc = "done"
        /\ request.data.complete
        /\ \E i \in 1..Len(request.data.detected),
              j \in 1..Len(request.data.references) :
                Len(request.data.detected[i])
                    /= Len(request.data.references[j].encoding))
       => response.status >= 400
    /\ InMatchFaces =>
          \A x \in 1..Len(mf.matches) :
              \A j \in 1..Len(mf.reference_encodings) :
                  mf.reference_encodings[j].student_id = mf.matches[x].studentId
                  => Len(mf.reference_encodings[j].encoding)
                         = Len(mf.detected_encodings[mf.matches[x].faceId + 1])
    /\ (/\ request.route = "/recognize" /\ pc = "done"
        /\ request.known_faces.json_ok /\ request.image.decodable
        /\ \E i \in 1..Len(request.image.faces),
              j \in 1..Len(request.known_faces.data) :
                Len(request.image.faces[i])
                    /= Len(request.known_faces.data[j].encoding))
       => response.status >= 400
----------------------------------------------------------------------------
(* C12: among candidates at exactly equal minimum distance the first in the
   caller's order wins: the argmin of compare_faces in /recognize is the
   lowest index among the equal minima and a recognized detection carries
   that reference's id; /match-faces keeps the first reference, in insertion
   order, among the equal minima; the scan of /process-attendance keeps the
   first face of the pool among the equal minima. *)
C12_FirstOfEqualMinimaWins ==
    /\ (InRecognize /\ Len(rec.known_encodings) > 0) =>
          /\ \A k \in 1..Len(rec.face_encodings) :
                argmin(face_distance(rec.known_encodings,
                                     rec.face_encodings[k])) + 1
                    = FirstNearest(rec.known_encodings, rec.face_encodings[k])
          /\ \A x \in 1..Len(rec.recognized) :
                rec.recognized[x].id =
                    rec.known_info[FirstNearest(rec.known_encodings,
                        rec.face_encodings[rec.recognized[x].location + 1])].id
    /\ (InMatchFaces /\ Len(mf.reference_encodings) > 0) =>
          /\ \A x \in 1..Len(mf.matches) :
                mf.matches[x].studentId =
                    mf.reference_encodings[FirstNearest(RefEncodings,
                        mf.detected_encodings[mf.matches[x].faceId + 1])].student_id
          /\ (/\ mf.i > 0
              /\ MinDist(RefEncodings, mf.detected_encodings[mf.i]) < mf.tolerance)
             => mf.best_match =
                    <<mf.reference_encodings[FirstNearest(RefEncodings,
                          mf.detected_encodings[mf.i])].student_id>>
    /\ (InAttendance /\ Len(pa.all_detected_faces) > 0) =>
          \A s \in 1..Len(pa.students) :
              LET reference_encoding == pa.students[s].faceEncoding
              IN  (/\ reference_encoding /= <<>>
                   /\ MinDist(pa.all_detected_faces, reference_encoding)
                          < AttendanceTolerance)
                  => attendance_scan(reference_encoding, pa.all_detected_faces,
                                     1, FALSE, 0, 0).best_face
                         = FirstNearest(pa.all_detected_faces, reference_encoding)

\* /recognize has answered for a face with two references of different ids
\* at the same least distance, within tolerance: the face carries the id of
\* the first of them
C12_Witness ==
    /\ Succeeded /\ request.route = "/recognize"
    /\ \E x \in 1..Len(response.recognized) :
          LET e == rec.face_encodings[response.recognized[x].location + 1]
              d == MinDist(rec.known_encodings, e)
          IN  \E a, b \in 1..Len(rec.known_encodings) :
                  /\ a < b
                  /\ DistTo(rec.known_encodings, a, e) = d
                  /\ DistTo(rec.known_encodings, b, e) = d
                  /\ rec.known_info[a].id /= rec.known_info[b].id
                  /\ response.recognized[x].id = rec.known_info[a].id
----------------------------------------------------------------------------
\* the faces of the first n photos, in order, those of the photos that could
\* not be opened left out
RECURSIVE PooledFaces(_, _)
PooledFaces(photos, n) ==
    IF n = 0
    THEN <<>>
    ELSE PooledFaces(photos, n - 1)
             \o (IF photos[n].decodable THEN photos[n].faces ELSE <<>>)

(* C13: in /process-attendance a photo that cannot be opened or has no face
   contributes nothing and does not abort the call: after every prefix of
   the photo loop the pool is the in-order concatenation of the faces of the
   photos processed so far, every photo is processed before the students
   are, a call with photos and students ends in success, and the response
   then has a verdict for every student with a reference, PRESENT exactly
   when a face of the pool matches the reference. *)
C13_FailedPhotoContributesNothing ==
    InAttendance =>
        /\ pa.all_detected_faces = PooledFaces(request.photos, pa.photo_index)
        /\ pc = "attendance_students" => pa.photo_index = Len(request.photos)
        /\ (/\ pc = "done"
            /\ request.photos /= <<>>
            /\ request.students_json.present)
           => /\ response.status = 200
              /\ pa.photo_index = Len(request.photos)
              /\ \A s \in 1..Len(pa.students) :
                    pa.students[s].faceEncoding /= <<>> =>
                        /\ Len(response.results) = Len(pa.students)
                        /\ response.results[s].studentId = pa.students[s].id
                        /\ (response.results[s].status = "PRESENT"
                             <=> attendance_scan(pa.students[s].faceEncoding,
                                                 pa.all_detected_faces,
                                                 1, FALSE, 0, 0).best_match)
====
